---- MODULE Spec2Model ----
(***************************************************************************)
(* Lead Cleaner (clean_leads.py): name normalisation, exact-match removal, *)
(* fuzzy matching with rapidfuzz token_sort_ratio and result assembly.     *)
(*                                                                         *)
(* A text is a sequence of Unicode code points (32 = space, 46 = ".",      *)
(* 95 = "_", 65..90 = A..Z, 97..122 = a..z, 233 = e-acute, 769 = combining *)
(* acute accent, 160 = no-break space, 223 = sharp s).                     *)
(* A spreadsheet cell is [isstr |-> BOOLEAN, text |-> code points]; a cell *)
(* that is not a string (NaN) has isstr = FALSE.                           *)
(***************************************************************************)
EXTENDS Integers, Sequences, FiniteSets, TLC

(***************************************************************************)
(* Bounds of the model.                                                    *)
(***************************************************************************)
MaxLen == 3          \* Spec: longest cell, over {a, b}
MaxLeads == 2        \* Spec: rows of the leads table
MaxClients == 2      \* Spec: rows of the clients table
MaxTokLen == 3       \* SpecTokens: longest cell, over {a, b, space}
MaxTokLeads == 2     \* SpecTokens: rows of the leads table
MaxTokClients == 1   \* SpecTokens: rows of the clients table
MaxTieLen == 3       \* SpecTie: longest cell, over {a, b}
MaxTieLeads == 1     \* SpecTie: rows of the leads table
MaxTieClients == 4   \* SpecTie: rows of the clients table
MaxNormLen == 3      \* SpecNorm: longest text given to normalize_extra

(***************************************************************************)
(* Generic sequence helpers.                                               *)
(***************************************************************************)
RECURSIVE Concat(_)
Concat(ss) == IF ss = <<>> THEN <<>> ELSE Head(ss) \o Concat(Tail(ss))

Range(s) == {s[i] : i \in 1..Len(s)}

\* All sequences over S of length at most n.
SeqsUpTo(S, n) == UNION {[1..k -> S] : k \in 0..n}

Str(t) == [isstr |-> TRUE, text |-> t]
NaN == [isstr |-> FALSE, text |-> <<>>]

(***************************************************************************)
(* normalize_extra, step by step.                                          *)
(***************************************************************************)
\* unicodedata.normalize("NFKD", .) on one code point: compatibility
\* decomposition of the characters the model draws; ASCII is unchanged.
NFKDChar(c) ==
    CASE c = 233 -> <<101, 769>>      \* e-acute -> e + combining acute
      [] c = 201 -> <<69, 769>>       \* E-acute -> E + combining acute
      [] c = 160 -> <<32>>            \* no-break space -> space
      [] OTHER   -> <<c>>             \* ASCII, sharp s, combining marks

NFKD(t) == Concat([i \in 1..Len(t) |-> NFKDChar(t[i])])

\* text.encode("ascii", "ignore").decode("utf-8"): non-ASCII is dropped.
IsAscii(c) == c < 128
AsciiIgnore(t) == SelectSeq(t, IsAscii)

\* \w on ASCII text: letters, digits and the underscore.
IsWordChar(c) == \/ c \in 48..57
                 \/ c \in 65..90
                 \/ c \in 97..122
                 \/ c = 95

\* \s on ASCII text (also what str.strip() and str.split() strip).
IsSpaceChar(c) == c \in 9..13 \/ c \in 28..32

\* A variant of RemovePunct that puts a space where it deletes.
ReplaceOrKeep(c) == IF IsWordChar(c) \/ IsSpaceChar(c) THEN c ELSE 32
RemovePunct_asSpace(t) == [i \in 1..Len(t) |-> ReplaceOrKeep(t[i])]

KeepsChar(c) == IsWordChar(c) \/ IsSpaceChar(c)

\* re.sub(r"[^\w\s]", "", text): whatever is neither \w nor \s is deleted.
RemovePunct(t) == SelectSeq(t, KeepsChar)

\* re.sub(r"\s+", " ", text): each maximal run of whitespace becomes one space.
RECURSIVE CollapseSpaces(_)
CollapseSpaces(t) ==
    IF t = <<>> THEN <<>>
    ELSE IF IsSpaceChar(Head(t))
         THEN IF Len(t) > 1 /\ IsSpaceChar(t[2])
              THEN CollapseSpaces(Tail(t))
              ELSE <<32>> \o CollapseSpaces(Tail(t))
         ELSE <<Head(t)>> \o CollapseSpaces(Tail(t))

\* str.strip()
RECURSIVE LStrip(_)
LStrip(t) == IF t # <<>> /\ IsSpaceChar(Head(t)) THEN LStrip(Tail(t)) ELSE t

RECURSIVE RStrip(_)
RStrip(t) == IF t # <<>> /\ IsSpaceChar(t[Len(t)])
             THEN RStrip(SubSeq(t, 1, Len(t) - 1)) ELSE t

Strip(t) == RStrip(LStrip(t))

\* str.lower() on ASCII text
LowerChar(c) == IF c \in 65..90 THEN c + 32 ELSE c
Lower(t) == [i \in 1..Len(t) |-> LowerChar(t[i])]

normalize_extra(cell) ==
    IF ~cell.isstr THEN <<>>
    ELSE Lower(Strip(CollapseSpaces(RemovePunct(AsciiIgnore(NFKD(cell.text))))))

(***************************************************************************)
(* rapidfuzz: fuzz.token_sort_ratio and process.extract.                   *)
(* A similarity score is the exact fraction num/den in lowest terms (the   *)
(* library returns the double nearest to it).                              *)
(***************************************************************************)
RECURSIVE GCD(_, _)
GCD(a, b) == IF b = 0 THEN a ELSE GCD(b, a % b)

Score(n, d) == LET g == GCD(n, d) IN [num |-> n \div g, den |-> d \div g]

ScoreLess(x, y) == x.num * y.den < y.num * x.den
ScoreLeq(x, y) == x.num * y.den <= y.num * x.den

\* str.split(): the maximal runs of non-whitespace, in order.
RECURSIVE SplitFrom(_, _)
SplitFrom(t, cur) ==
    IF t = <<>> THEN (IF cur = <<>> THEN <<>> ELSE <<cur>>)
    ELSE IF IsSpaceChar(Head(t))
         THEN (IF cur = <<>> THEN <<>> ELSE <<cur>>) \o SplitFrom(Tail(t), <<>>)
         ELSE SplitFrom(Tail(t), Append(cur, Head(t)))

Split(t) == SplitFrom(t, <<>>)

\* Python's order on str: lexicographic by code point, a proper prefix first.
RECURSIVE StrLess(_, _)
StrLess(a, b) ==
    IF b = <<>> THEN FALSE
    ELSE IF a = <<>> THEN TRUE
    ELSE IF Head(a) # Head(b) THEN Head(a) < Head(b)
    ELSE StrLess(Tail(a), Tail(b))

\* sorted(tokens): insertion into an already sorted list, stable.
RECURSIVE InsertSorted(_, _)
InsertSorted(tok, sorted) ==
    IF sorted = <<>> THEN <<tok>>
    ELSE IF StrLess(tok, Head(sorted)) THEN <<tok>> \o sorted
    ELSE <<Head(sorted)>> \o InsertSorted(tok, Tail(sorted))

RECURSIVE SortTokens(_)
SortTokens(toks) ==
    IF toks = <<>> THEN <<>>
    ELSE InsertSorted(Head(toks), SortTokens(Tail(toks)))

\* " ".join(tokens)
RECURSIVE JoinTokens(_)
JoinTokens(toks) ==
    IF toks = <<>> THEN <<>>
    ELSE IF Len(toks) = 1 THEN Head(toks)
    ELSE Head(toks) \o <<32>> \o JoinTokens(Tail(toks))

SortedTokenString(t) == JoinTokens(SortTokens(Split(t)))

\* Length of a longest common subsequence.
RECURSIVE LCS(_, _)
LCS(a, b) ==
    IF a = <<>> \/ b = <<>> THEN 0
    ELSE IF Head(a) = Head(b) THEN 1 + LCS(Tail(a), Tail(b))
    ELSE LET x == LCS(Tail(a), b)
             y == LCS(a, Tail(b))
         IN IF x >= y THEN x ELSE y

\* fuzz.ratio: 100 * (1 - indel_distance / (len1 + len2)); 100 for two
\* empty strings.
ratio(a, b) ==
    LET maximum == Len(a) + Len(b)
        dist == maximum - 2 * LCS(a, b)
    IN IF maximum = 0 THEN Score(100, 1)
       ELSE Score(100 * (maximum - dist), maximum)

token_sort_ratio(s1, s2) == ratio(SortedTokenString(s1), SortedTokenString(s2))

\* The scored choices of one query, in the enumeration order of the choices:
\* (choice, score, index).
Scored(query, choices) ==
    [i \in 1..Len(choices) |->
        [name |-> choices[i], score |-> token_sort_ratio(query, choices[i]), index |-> i]]

\* A result comes before another when its score is higher, and on equal
\* scores when it was enumerated first.
Before(x, y) == \/ ScoreLess(y.score, x.score)
                \/ (x.score = y.score /\ x.index < y.index)

\* The results ordered best first.
RECURSIVE InsertResult(_, _)
InsertResult(r, sorted) ==
    IF sorted = <<>> THEN <<r>>
    ELSE IF Before(r, Head(sorted)) THEN <<r>> \o sorted
    ELSE <<Head(sorted)>> \o InsertResult(r, Tail(sorted))

RECURSIVE SortResults(_)
SortResults(rs) ==
    IF rs = <<>> THEN <<>>
    ELSE InsertResult(Head(rs), SortResults(Tail(rs)))

\* process.extract(query, choices, scorer=fuzz.token_sort_ratio, limit=limit)
extract(query, choices, limit) ==
    LET all == SortResults(Scored(query, choices))
    IN SubSeq(all, 1, IF Len(all) < limit THEN Len(all) ELSE limit)

(***************************************************************************)
(* The Streamlit script.                                                   *)
(***************************************************************************)
VARIABLES
    leads_file,         \* uploaded leads_sn.xlsx: <<>> (none) or <<table>>
    clients_file,       \* uploaded client_list.xlsx: <<>> (none) or <<table>>
    pc,                 \* "waiting" for both files, or "done" after the run
    leads_df,           \* rows [companyName, normalized_name, is_exact_match]
    clients_df,         \* rows [companyName, normalized_name]
    exact_normalized_set,
    client_names_set,   \* the set of client keys, as the order it enumerates in
    exact_matches_df,
    filtered_leads,
    matches,            \* rows [LeadName, ClientName, Similarity]
    fuzzy_df,           \* matches, then merged with the original names
    final_leads,        \* rows [companyName]
    message,            \* "", "success" (st.success) or "error" (st.error)
    downloads,          \* the download buttons: rows [file_name, rows, data]
    norm_in,            \* one call of normalize_extra: its argument,
    norm_text,          \*   the text so far,
    norm_pc             \*   and the line it has reached

script_vars == <<leads_file, clients_file, pc, leads_df, clients_df,
                 exact_normalized_set, client_names_set, exact_matches_df,
                 filtered_leads, matches, fuzzy_df, final_leads, message,
                 downloads>>

norm_vars == <<norm_in, norm_text, norm_pc>>

vars == <<script_vars, norm_vars>>

\* The score floor of the acceptance band and the number of candidates kept.
Threshold == 75
Limit == 3

\* Every order in which a set can be enumerated.
Orders(S) ==
    {f \in [1..Cardinality(S) -> S] :
        \A i, j \in 1..Cardinality(S) : f[i] = f[j] => i = j}

\* Series.drop_duplicates(): the first occurrence of each value, in order.
RECURSIVE drop_duplicates(_)
drop_duplicates(s) ==
    IF s = <<>> THEN <<>>
    ELSE LET init == drop_duplicates(SubSeq(s, 1, Len(s) - 1))
             last == s[Len(s)]
         IN IF last \in Range(init) THEN init ELSE Append(init, last)

\* Lines 42-43: the normalized_name column.
WithNormalizedName(table) ==
    [i \in 1..Len(table) |->
        [companyName |-> table[i], normalized_name |-> normalize_extra(table[i])]]

\* A variant of is_exact_match that finds no lead among the clients.
is_exact_match_never(key, keyset) == FALSE

\* Line 47: Series.isin(exact_normalized_set)
is_exact_match(key, keyset) == key \in keyset

\* Line 47: the is_exact_match column.
WithIsExactMatch(rows, keyset) ==
    [i \in 1..Len(rows) |->
        [companyName |-> rows[i].companyName,
         normalized_name |-> rows[i].normalized_name,
         is_exact_match |-> is_exact_match(rows[i].normalized_name, keyset)]]

IsExactRow(r) == r.is_exact_match
IsRemainderRow(r) == ~r.is_exact_match

\* df["normalized_name"]: the column, as a Series.
normalized_name(rows) == [i \in 1..Len(rows) |-> rows[i].normalized_name]

\* A variant of InBand that lets a score of 100 in.
InBand_upTo100(score) == /\ score.num >= 75 * score.den
                         /\ score.num <= 100 * score.den

\* Line 67: the acceptance band.
InBand(score) == /\ ScoreLeq(Score(Threshold, 1), score)
                 /\ ScoreLess(score, Score(100, 1))

\* Lines 65-72: the rows one lead name appends to matches.
RECURSIVE MatchesOf(_, _)
MatchesOf(lead_name, similars) ==
    IF similars = <<>> THEN <<>>
    ELSE LET m == Head(similars)
         IN (IF InBand(m.score) /\ lead_name # m.name
             THEN <<[LeadName |-> lead_name, ClientName |-> m.name,
                     Similarity |-> m.score]>>
             ELSE <<>>)
            \o MatchesOf(lead_name, Tail(similars))

\* Lines 56-72: the matching loop over the distinct remainder names.
RECURSIVE FuzzyLoop(_, _, _)
FuzzyLoop(names, keyset, choices) ==
    IF names = <<>> THEN <<>>
    ELSE (IF Head(names) \in keyset THEN <<>>
          ELSE MatchesOf(Head(names), extract(Head(names), choices, Limit)))
         \o FuzzyLoop(Tail(names), keyset, choices)

\* A variant of MergeRow that gives each fuzzy row the first lead only.
RECURSIVE MergeRow_first(_, _)
MergeRow_first(m, leads) ==
    IF leads = <<>> THEN <<>>
    ELSE IF Head(leads).normalized_name = m.LeadName
         THEN <<[LeadName |-> m.LeadName, ClientName |-> m.ClientName,
                 Similarity |-> m.Similarity,
                 OriginalName |-> Head(leads).companyName]>>
         ELSE MergeRow_first(m, Tail(leads))

\* Lines 82-87: DataFrame.merge(how="left") of one fuzzy row with the leads
\* that carry its Lead Name: one row per such lead, in the order of leads_df.
RECURSIVE MergeRow(_, _)
MergeRow(m, leads) ==
    IF leads = <<>> THEN <<>>
    ELSE (IF Head(leads).normalized_name = m.LeadName
          THEN <<[LeadName |-> m.LeadName, ClientName |-> m.ClientName,
                  Similarity |-> m.Similarity,
                  OriginalName |-> Head(leads).companyName]>>
          ELSE <<>>)
         \o MergeRow(m, Tail(leads))

RECURSIVE Merge(_, _)
Merge(rows, leads) ==
    IF rows = <<>> THEN <<>>
    ELSE MergeRow(Head(rows), leads) \o Merge(Tail(rows), leads)

LeadNames(fuzzy) == {fuzzy[i].LeadName : i \in 1..Len(fuzzy)}

\* A variant of FinalLeads that keeps the flagged leads in the cleaned table.
FinalLeads_keepFlagged(rows, fuzzy) == rows

\* Line 90: the remainder rows whose name is no Lead Name of fuzzy_df.
RECURSIVE FinalLeads(_, _)
FinalLeads(rows, fuzzy) ==
    IF rows = <<>> THEN <<>>
    ELSE (IF Head(rows).normalized_name \in LeadNames(fuzzy)
          THEN <<>>
          ELSE <<Head(rows)>>)
         \o FinalLeads(Tail(rows), fuzzy)

\* Line 91: drop(columns=["normalized_name", "is_exact_match"])
DropColumns(rows) == [i \in 1..Len(rows) |-> [companyName |-> rows[i].companyName]]

\* Lines 108-116: the three download buttons, each with its row count and
\* the table it serves.
Buttons(final, fuzzy, exact) ==
    << [file_name |-> "cleaned_leads.xlsx",
        rows |-> Len(final), data |-> final],
       [file_name |-> "potential_matches_to_review.xlsx",
        rows |-> Len(fuzzy), data |-> fuzzy],
       [file_name |-> "exact_matches_removed.xlsx",
        rows |-> Len(exact), data |-> exact] >>

NoNormalizeCall ==
    /\ norm_in = NaN
    /\ norm_text = <<>>
    /\ norm_pc = "idle"

NoScript ==
    /\ leads_file = <<>>
    /\ clients_file = <<>>
    /\ pc = "waiting"
    /\ leads_df = <<>>
    /\ clients_df = <<>>
    /\ exact_normalized_set = {}
    /\ client_names_set = <<>>
    /\ exact_matches_df = <<>>
    /\ filtered_leads = <<>>
    /\ matches = <<>>
    /\ fuzzy_df = <<>>
    /\ final_leads = <<>>
    /\ message = ""
    /\ downloads = <<>>

\* The page before any upload.
Init == NoScript /\ NoNormalizeCall

\* Line 28: a leads file is uploaded.
UploadLeadsFrom(cells, n) ==
    /\ pc = "waiting"
    /\ leads_file = <<>>
    /\ \E k \in 0..n : \E table \in [1..k -> cells] : leads_file' = <<table>>
    /\ UNCHANGED <<clients_file, pc, leads_df, clients_df, exact_normalized_set,
                   client_names_set, exact_matches_df, filtered_leads, matches,
                   fuzzy_df, final_leads, message, downloads, norm_vars>>

\* Line 29: a clients file is uploaded.
UploadClientsFrom(cells, n) ==
    /\ pc = "waiting"
    /\ clients_file = <<>>
    /\ \E k \in 0..n : \E table \in [1..k -> cells] : clients_file' = <<table>>
    /\ UNCHANGED <<leads_file, pc, leads_df, clients_df, exact_normalized_set,
                   client_names_set, exact_matches_df, filtered_leads, matches,
                   fuzzy_df, final_leads, message, downloads, norm_vars>>

\* A roster: a clients table without repeated rows, in ascending order.
IsRoster(table) ==
    \A i \in 1..(Len(table) - 1) : StrLess(table[i].text, table[i + 1].text)

\* Line 29: a clients file is uploaded that holds a roster.
UploadRosterFrom(cells, n) ==
    /\ pc = "waiting"
    /\ clients_file = <<>>
    /\ \E k \in 0..n : \E table \in [1..k -> cells] :
          /\ IsRoster(table)
          /\ clients_file' = <<table>>
    /\ UNCHANGED <<leads_file, pc, leads_df, clients_df, exact_normalized_set,
                   client_names_set, exact_matches_df, filtered_leads, matches,
                   fuzzy_df, final_leads, message, downloads, norm_vars>>

\* Lines 34-118: the script body on the two tables. Each value is computed
\* once, in the order of the script; the set of client names enumerates in
\* any order.
RunOn(leads_table, clients_table) ==
    \E leads0 \in {WithNormalizedName(leads_table)} :
    \E clients \in {WithNormalizedName(clients_table)} :
    \E keyset \in {{clients[i].normalized_name : i \in 1..Len(clients)}} :
    \E leads \in {WithIsExactMatch(leads0, keyset)} :
    \E exact \in {SelectSeq(leads, IsExactRow)} :
    \E filtered \in {SelectSeq(leads, IsRemainderRow)} :
    \E unique_names \in {drop_duplicates(normalized_name(filtered))} :
    \E order \in Orders(keyset) :
    \E found \in {FuzzyLoop(unique_names, keyset, order)} :
        /\ leads_df' = leads
        /\ clients_df' = clients
        /\ exact_normalized_set' = keyset
        /\ client_names_set' = order
        /\ exact_matches_df' = exact
        /\ filtered_leads' = filtered
        /\ matches' = found
        /\ IF found # <<>>
           THEN \E merged \in {Merge(found, leads)} :
                \E final \in {DropColumns(FinalLeads(filtered, merged))} :
                    /\ fuzzy_df' = merged
                    /\ final_leads' = final
                    /\ message' = "success"
                    /\ downloads' = Buttons(final, merged, exact)
           ELSE /\ fuzzy_df' = <<>>
                /\ final_leads' = <<>>
                /\ message' = "error"
                /\ downloads' = <<>>

\* Line 31: the script body runs once both files are there.
Run ==
    /\ pc = "waiting"
    /\ leads_file # <<>>
    /\ clients_file # <<>>
    /\ RunOn(leads_file[1], clients_file[1])
    /\ pc' = "done"
    /\ UNCHANGED <<leads_file, clients_file, norm_vars>>

(***************************************************************************)
(* Spec: tables of cells over {a, b} and NaN.                              *)
(***************************************************************************)
Chars == {97, 98}
Cells == {Str(t) : t \in SeqsUpTo(Chars, MaxLen)} \cup {NaN}

UploadLeads == UploadLeadsFrom(Cells, MaxLeads)
UploadClients == UploadClientsFrom(Cells, MaxClients)

Next == UploadLeads \/ UploadClients \/ Run

Spec == Init /\ [][Next]_vars

(***************************************************************************)
(* SpecTokens: cells of several words, over {a, b, space} and NaN.         *)
(***************************************************************************)
TokChars == {97, 98, 32}
TokCells == {Str(t) : t \in SeqsUpTo(TokChars, MaxTokLen)} \cup {NaN}

TokUploadLeads == UploadLeadsFrom(TokCells, MaxTokLeads)
TokUploadClients == UploadClientsFrom(TokCells, MaxTokClients)

TokNext == TokUploadLeads \/ TokUploadClients \/ Run

SpecTokens == Init /\ [][TokNext]_vars

(***************************************************************************)
(* SpecTie: one lead against a roster of up to MaxTieClients clients. The  *)
(* script reads the clients table only through the set of its normalized   *)
(* names (lines 46 and 53), so the roster is given without repeated rows   *)
(* and in ascending order.                                                 *)
(***************************************************************************)
TieChars == {97, 98}
TieCells == {Str(t) : t \in SeqsUpTo(TieChars, MaxTieLen)}

TieUploadLeads == UploadLeadsFrom(TieCells, MaxTieLeads)
TieUploadClients == UploadRosterFrom(TieCells, MaxTieClients)

TieNext == TieUploadLeads \/ TieUploadClients \/ Run

SpecTie == Init /\ [][TieNext]_vars

(***************************************************************************)
(* SpecNorm: one call of normalize_extra, line by line.                    *)
(***************************************************************************)
\* a, A, 1, ".", "_", space, e-acute, no-break space, sharp s
NormChars == {97, 65, 49, 46, 95, 32, 233, 160, 223}
NormCells == {Str(t) : t \in SeqsUpTo(NormChars, MaxNormLen)} \cup {NaN}

NormInit ==
    /\ NoScript
    /\ norm_in \in NormCells
    /\ norm_text = <<>>
    /\ norm_pc = "call"

\* Lines 10-11: a cell that is no string gives "".
NormNotString ==
    /\ norm_pc = "call"
    /\ ~norm_in.isstr
    /\ norm_text' = <<>>
    /\ norm_pc' = "return"
    /\ UNCHANGED <<norm_in, script_vars>>

\* Line 13
NormDecompose ==
    /\ norm_pc = "call"
    /\ norm_in.isstr
    /\ norm_text' = NFKD(norm_in.text)
    /\ norm_pc' = "encode"
    /\ UNCHANGED <<norm_in, script_vars>>

\* Line 15
NormEncode ==
    /\ norm_pc = "encode"
    /\ norm_text' = AsciiIgnore(norm_text)
    /\ norm_pc' = "punct"
    /\ UNCHANGED <<norm_in, script_vars>>

\* Line 17
NormPunct ==
    /\ norm_pc = "punct"
    /\ norm_text' = RemovePunct(norm_text)
    /\ norm_pc' = "spaces"
    /\ UNCHANGED <<norm_in, script_vars>>

\* Line 19
NormSpaces ==
    /\ norm_pc = "spaces"
    /\ norm_text' = CollapseSpaces(norm_text)
    /\ norm_pc' = "strip"
    /\ UNCHANGED <<norm_in, script_vars>>

\* Line 20
NormStripLower ==
    /\ norm_pc = "strip"
    /\ norm_text' = Lower(Strip(norm_text))
    /\ norm_pc' = "return"
    /\ UNCHANGED <<norm_in, script_vars>>

NormNext == \/ NormNotString
            \/ NormDecompose
            \/ NormEncode
            \/ NormPunct
            \/ NormSpaces
            \/ NormStripLower

SpecNorm == NormInit /\ [][NormNext]_vars

(***************************************************************************)
(* Vocabulary of the properties.                                           *)
(***************************************************************************)
Done == pc = "done"

Keys(rows) == {rows[i].normalized_name : i \in 1..Len(rows)}

LeadKeys == Keys(leads_df)
ClientKeySet == Keys(clients_df)

\* The lead Records that carry a key.
RecordsOf(k) == {i \in 1..Len(leads_df) : leads_df[i].normalized_name = k}

\* The table a download button serves: <<table>>, or <<>> without the button.
Output(name) ==
    LET hits == {i \in 1..Len(downloads) : downloads[i].file_name = name}
    IN IF hits = {} THEN <<>> ELSE <<downloads[CHOOSE i \in hits : TRUE].data>>

Hundred(score) == score.num = 100 * score.den
InAcceptanceBand(score) == /\ 75 * score.den <= score.num
                           /\ score.num < 100 * score.den

\* The distinct remainder names the matcher searches, and what it keeps
\* for each.
SearchedNames == drop_duplicates(normalized_name(filtered_leads))
KeptFor(k) == extract(k, client_names_set, 3)
BandCandidatesOf(k) ==
    IF k \in Range(SearchedNames)
    THEN UNION {{i \in 1..Len(kept) : InAcceptanceBand(kept[i].score)} :
                  kept \in {KeptFor(k)}}
    ELSE {}

FuzzyRowsOf(k) == {i \in 1..Len(fuzzy_df) : fuzzy_df[i].LeadName = k}

ExactMatchKeys == Keys(exact_matches_df)
FuzzyFlaggedKeys == {matches[i].LeadName : i \in 1..Len(matches)}
DistinctKeys ==
    IF message = "success"
    THEN {normalize_extra(final_leads[i].companyName) : i \in 1..Len(final_leads)}
    ELSE Keys(filtered_leads) \ FuzzyFlaggedKeys

(***************************************************************************)
(* C1.  A run with no leads, or with no fuzzy match, is not an error: it   *)
(* ends without the error message and offers all three output tables.      *)
(***************************************************************************)
C1_EmptyResultIsNoError ==
    (Done /\ (leads_df = <<>> \/ matches = <<>>))
        => /\ message # "error"
           /\ Output("cleaned_leads.xlsx") # <<>>
           /\ Output("potential_matches_to_review.xlsx") # <<>>
           /\ Output("exact_matches_removed.xlsx") # <<>>

(***************************************************************************)
(* C2.  In every run the exact-match output holds every lead Record whose  *)
(* key is a client key, and the cleaned output every lead Record whose key *)
(* is neither a client key nor flagged, one row per Record.                *)
(***************************************************************************)
C2_OutputsHoldTheirRecords ==
    Done =>
        LET exactRecs == {i \in 1..Len(leads_df) :
                            leads_df[i].normalized_name \in ClientKeySet}
            distinctRecs == {i \in 1..Len(leads_df) :
                               /\ leads_df[i].normalized_name \notin ClientKeySet
                               /\ BandCandidatesOf(leads_df[i].normalized_name) = {}}
            exactOut == Output("exact_matches_removed.xlsx")
            cleanedOut == Output("cleaned_leads.xlsx")
        IN /\ exactOut # <<>>
           /\ cleanedOut # <<>>
           /\ Len(exactOut[1]) = Cardinality(exactRecs)
           /\ \A i \in exactRecs :
                \E j \in 1..Len(exactOut[1]) :
                    exactOut[1][j].companyName = leads_df[i].companyName
           /\ Len(cleanedOut[1]) = Cardinality(distinctRecs)
           /\ \A i \in distinctRecs :
                \E j \in 1..Len(cleanedOut[1]) :
                    cleanedOut[1][j].companyName = leads_df[i].companyName

(***************************************************************************)
(* C3 as stated.  For every distinct lead key the fuzzy-review table has   *)
(* as many rows as the key has candidates in the band, so at most 3,       *)
(* however many lead Records carry the key.                                *)
(***************************************************************************)
C3_OneRowPerCandidate ==
    Done =>
        \A k \in LeadKeys :
            \E rows \in {Cardinality(FuzzyRowsOf(k))} :
                /\ rows = Cardinality(BandCandidatesOf(k))
                /\ rows <= 3

(***************************************************************************)
(* C3 amended.  For every distinct lead key the fuzzy-review table has one *)
(* row per candidate in the band and per lead Record carrying the key:     *)
(* candidates times Records rows, with at most 3 candidates.               *)
(***************************************************************************)
C3_OneRowPerCandidateAndRecord ==
    Done =>
        \A k \in LeadKeys :
            \E n \in {Cardinality(BandCandidatesOf(k))} :
                /\ Cardinality(FuzzyRowsOf(k)) = n * Cardinality(RecordsOf(k))
                /\ n <= 3

C3_Witness ==
    /\ Done
    /\ \E k \in LeadKeys :
        /\ Cardinality(RecordsOf(k)) = 2
        /\ Cardinality(BandCandidatesOf(k)) = 2
        /\ Cardinality(FuzzyRowsOf(k)) = 4

(***************************************************************************)
(* C4.  No lead name that reaches the similarity search scores 100 against *)
(* a client name, and no lead whose name scores 100 against a client name  *)
(* is in the cleaned output.                                               *)
(***************************************************************************)
C4_HundredMeansExact ==
    Done =>
        /\ \A k \in Range(SearchedNames) : \A c \in ClientKeySet :
              ~Hundred(token_sort_ratio(k, c))
        /\ \A i \in 1..Len(final_leads) : \A c \in ClientKeySet :
              ~Hundred(token_sort_ratio(normalize_extra(final_leads[i].companyName), c))

(***************************************************************************)
(* C6.  The flagged candidates of a run do not depend on the order in      *)
(* which the set of client names enumerates: the reverse of the order this *)
(* run met gives the same rows.                                            *)
(***************************************************************************)
Reverse(s) == [i \in 1..Len(s) |-> s[Len(s) + 1 - i]]

C6_TieBreakIsDeterministic ==
    Done =>
        Range(FuzzyLoop(SearchedNames, exact_normalized_set, Reverse(client_names_set)))
            = Range(matches)

(***************************************************************************)
(* C7.  Every candidate in the fuzzy-review table has 75 <= score < 100,   *)
(* and a kept candidate of a searched name is in the table iff its score   *)
(* lies in that band.                                                      *)
(***************************************************************************)
C7_BandCorrectness ==
    Done =>
        /\ \A i \in 1..Len(matches) : InAcceptanceBand(matches[i].Similarity)
        /\ \A i \in 1..Len(fuzzy_df) : InAcceptanceBand(fuzzy_df[i].Similarity)
        /\ \A k \in Range(SearchedNames) :
              \E kept \in {KeptFor(k)} :
                 \A j \in 1..Len(kept) :
                    InAcceptanceBand(kept[j].score)
                       <=> \E i \in 1..Len(matches) :
                              /\ matches[i].LeadName = k
                              /\ matches[i].ClientName = kept[j].name
                              /\ matches[i].Similarity = kept[j].score

\* A run that flags one lead and keeps, for another, a candidate of score 100.
C7_Witness ==
    /\ Done
    /\ matches # <<>>
    /\ \E k \in Range(SearchedNames) :
          \E j \in 1..Len(KeptFor(k)) : Hundred(KeptFor(k)[j].score)

(***************************************************************************)
(* C8.  The classes ExactMatch, FuzzyFlagged and Distinct partition the    *)
(* distinct lead keys; the ExactMatch keys are the lead keys that are      *)
(* client keys, and no such key is the lead side of a candidate.           *)
(***************************************************************************)
C8_ClassesPartitionLeadKeys ==
    Done =>
        /\ ExactMatchKeys = LeadKeys \cap ClientKeySet
        /\ FuzzyFlaggedKeys \cap ClientKeySet = {}
        /\ ExactMatchKeys \cap FuzzyFlaggedKeys = {}
        /\ ExactMatchKeys \cap DistinctKeys = {}
        /\ FuzzyFlaggedKeys \cap DistinctKeys = {}
        /\ ExactMatchKeys \cup FuzzyFlaggedKeys \cup DistinctKeys = LeadKeys
        /\ Cardinality(ExactMatchKeys) + Cardinality(FuzzyFlaggedKeys)
              + Cardinality(DistinctKeys) = Cardinality(LeadKeys)

\* An exact-match lead whose name is also in the band of another client,
\* beside a flagged lead.
C8_Witness ==
    /\ Done
    /\ FuzzyFlaggedKeys # {}
    /\ \E k \in ExactMatchKeys : \E c \in ClientKeySet :
          InAcceptanceBand(token_sort_ratio(k, c))

(***************************************************************************)
(* C10.  In a run that produces outputs every lead Record is a row of the  *)
(* exact-removed table, or a row of the cleaned table, or its key is a     *)
(* Lead Name of the fuzzy-review table, and never two of these; the three  *)
(* counts add up to the number of lead Records.                            *)
(***************************************************************************)
C10_EachRecordAccountedOnce ==
    message = "success" =>
        LET inExact(i) == \E j \in 1..Len(exact_matches_df) :
                             exact_matches_df[j].companyName = leads_df[i].companyName
            inCleaned(i) == \E j \in 1..Len(final_leads) :
                               final_leads[j].companyName = leads_df[i].companyName
            flagged(i) == leads_df[i].normalized_name \in LeadNames(fuzzy_df)
        IN /\ \A i \in 1..Len(leads_df) :
                /\ inExact(i) \/ inCleaned(i) \/ flagged(i)
                /\ ~(inExact(i) /\ inCleaned(i))
                /\ ~(inExact(i) /\ flagged(i))
                /\ ~(inCleaned(i) /\ flagged(i))
           /\ Len(final_leads) + Len(exact_matches_df)
                 + Cardinality({i \in 1..Len(leads_df) : flagged(i)})
              = Len(leads_df)

C10_Witness ==
    /\ message = "success"
    /\ final_leads # <<>>
    /\ \E i \in 1..Len(leads_df) :
          leads_df[i].normalized_name \in LeadNames(fuzzy_df)

(***************************************************************************)
(* Vocabulary of the properties of normalize_extra.                        *)
(***************************************************************************)
Returned == norm_pc = "return" /\ norm_in.isstr

\* ASCII punctuation: ! " # $ % & ' ( ) * + , - . /  : ; < = > ? @
\* [ \ ] ^ _ `  { | } ~
IsPunctuation(c) == \/ c \in 33..47
                    \/ c \in 58..64
                    \/ c \in 91..96
                    \/ c \in 123..126

\* Letters (a-z, A-Z, e-acute, E-acute, sharp s) and digits.
IsLetterOrDigit(c) == \/ c \in 48..57
                      \/ c \in 65..90
                      \/ c \in 97..122
                      \/ c \in {233, 201, 223}

Without(t, i) == SubSeq(t, 1, i - 1) \o SubSeq(t, i + 1, Len(t))
WithSpaceAt(t, i) == [t EXCEPT ![i] = 32]

\* The positions i of the argument where it reads a p b: p a punctuation
\* character, a and b words made of letters and digits.
PunctBetweenWords(t) ==
    {i \in 2..(Len(t) - 1) :
        /\ IsPunctuation(t[i])
        /\ \A j \in 1..Len(t) : j # i => IsLetterOrDigit(t[j])}

\* A name with its letter case, its diacritics and its punctuation taken
\* away.
PlainChar(c) ==
    CASE c = 233 -> <<101>>
      [] c = 201 -> <<101>>
      [] c \in 65..90 -> <<c + 32>>
      [] IsPunctuation(c) -> <<>>
      [] OTHER -> <<c>>

Plain(t) == Concat([i \in 1..Len(t) |-> PlainChar(t[i])])

(***************************************************************************)
(* C5 as stated.  normalize puts a single space in the place of every      *)
(* character that is no letter, digit or whitespace:                       *)
(* normalize(a p b) = normalize(a " " b).                                  *)
(***************************************************************************)
C5_PunctuationBecomesSpace ==
    Returned =>
        \A i \in PunctBetweenWords(norm_in.text) :
            norm_text = normalize_extra(Str(WithSpaceAt(norm_in.text, i)))

(***************************************************************************)
(* C5 amended.  normalize deletes every punctuation character other than   *)
(* the underscore: normalize(a p b) = normalize(ab), and a and b come out  *)
(* as one token.                                                           *)
(***************************************************************************)
C5_PunctuationIsDeleted ==
    Returned =>
        \A i \in PunctBetweenWords(norm_in.text) :
            norm_in.text[i] # 95 =>
                /\ norm_text = normalize_extra(Str(Without(norm_in.text, i)))
                /\ Len(Split(norm_text)) <= 1

\* normalize("a.a") has returned "aa".
C5_Witness ==
    /\ Returned
    /\ \E i \in PunctBetweenWords(norm_in.text) : norm_in.text[i] # 95
    /\ Len(norm_text) = 2

(***************************************************************************)
(* C9.  normalize is insensitive to case, accents and punctuation: a name  *)
(* and the same name without its letter case, its diacritics and its       *)
(* punctuation characters have the same key.                               *)
(***************************************************************************)
C9_CaseAccentPunctuationInsensitive ==
    Returned => norm_text = normalize_extra(Str(Plain(norm_in.text)))

====
